---- MODULE Spec2Model ----
(***************************************************************************)
(* PWM output driver (src/main/drivers/pwm_output_hal.c): the output-port   *)
(* pool, the motor and servo dispatch tables, the two write strategies,     *)
(* the motor enable gate, the shutdown loop and the oneshot                 *)
(* synchronisation routine, as a state machine.                             *)
(*                                                                          *)
(* Pointers into pwmOutputPorts are modelled by the index of the cell they  *)
(* point to (NULL is -1).  Cell MAX_PWM_OUTPUT_PORTS is the memory that     *)
(* follows the array: pwmOutConfig performs no bounds check and hands it    *)
(* out like any other cell.  What the program does once that cell has been  *)
(* written is undefined (the record overlays whatever the linker placed     *)
(* behind pwmOutputPorts) and is not modelled further: no call is taken     *)
(* from such a state.  A compare-register handle is the pair                *)
(* <<timer, channel>>.                                                      *)
(***************************************************************************)
EXTENDS Integers, Sequences, FiniteSets, TLC

(* ------------------------------------------------------------------ *)
(* Capacities (scaled down from the firmware's 12 motors / 8 servos)    *)
(* ------------------------------------------------------------------ *)
MAX_MOTORS == 3
MAX_SERVOS == 1
MAX_PWM_MOTORS == MAX_MOTORS
MAX_PWM_SERVOS == MAX_SERVOS

MAX_PWM_OUTPUT_PORTS == IF MAX_MOTORS > MAX_SERVOS THEN MAX_MOTORS ELSE MAX_SERVOS

\* The cells of the pool and the one behind it.
PoolCells == MAX_PWM_OUTPUT_PORTS + 1

NULL == -1
NULL_TIM == "NULL"
NULL_CCR == <<"NULL", 0>>
NULL_FN == "NULL"

(* ------------------------------------------------------------------ *)
(* Timer abstraction: the board's channel descriptors and the timers    *)
(* whose handle resolves.                                               *)
(* ------------------------------------------------------------------ *)
timerHardware ==
    << [tim |-> "TIM1", channel |-> 1, outputEnable |-> TRUE],
       [tim |-> "TIM2", channel |-> 1, outputEnable |-> FALSE],
       [tim |-> "TIM9", channel |-> 1, outputEnable |-> TRUE],
       [tim |-> "TIM1", channel |-> 2, outputEnable |-> TRUE] >>

UsedTimers == {"TIM1", "TIM2"}

timerFindTimerHandle(tim) == IF tim \in UsedTimers THEN tim ELSE NULL_TIM

Registers == {<<timerHardware[h].tim, timerHardware[h].channel>> :
                 h \in {k \in 1..Len(timerHardware) : timerHardware[k].tim \in UsedTimers}}

(* ------------------------------------------------------------------ *)
(* Clock constants and the inputs of the calls                          *)
(* ------------------------------------------------------------------ *)
PWM_TIMER_MHZ == 1
PWM_BRUSHED_TIMER_MHZ == 8
ONESHOT_PERIOD == 65535
UINT16_MOD == 65536
INT_MAX == 2147483647

BrushedRates == {16000}
BrushlessRates == {400}
ServoRates == {50}
IdlePulses == {1000}
Values == {2000}
\* Indices and counts up to one behind the tables.
IndexInputs == 0..MAX_PWM_MOTORS
ServoIndexInputs == 0..MAX_PWM_SERVOS
CountInputs == 0..(MAX_PWM_MOTORS + 1)
\* Descriptors the boards of Spec use (TIM1_CH1, TIM2_CH1, unresolvable TIM9_CH1).
HwInputs == 1..3

ToUint16(x) == x % UINT16_MOD

\* C's integer division truncates toward zero.
CDiv(a, b) == IF a >= 0 THEN a \div b ELSE -((-a) \div b)

(* ------------------------------------------------------------------ *)
(* State                                                                *)
(* ------------------------------------------------------------------ *)
VARIABLES
    pwmOutputPorts,             \* cell -> [ccr, tim, period, pwmWritePtr]
    motors,                     \* motor index -> cell or NULL
    servos,                     \* servo index -> cell or NULL
    allocatedOutputPortCount,   \* allocation cursor
    pwmMotorsEnabled,           \* the motor enable gate
    CCR,                        \* hardware compare registers: handle -> value
    halted,                     \* a wild access trapped: the program stopped
    lastOp,                     \* history: the call that ran last
    trace,                      \* history: what the last call did, in order
    pc,                         \* control loop: where it stands inside pwmWriteMotor
    call                        \* control loop: arguments and loads of that call

vars == <<pwmOutputPorts, motors, servos, allocatedOutputPortCount,
          pwmMotorsEnabled, CCR, halted, lastOp, trace, pc, call>>

\* The control loop's own state, untouched by calls that run to completion.
loop == <<pc, call>>

\* A call can be taken: the program has not trapped and has not written
\* behind the pool.
Running == ~halted /\ allocatedOutputPortCount <= MAX_PWM_OUTPUT_PORTS

\* The control loop is between two calls.
Idle == Running /\ pc = "idle"

NoCall == [index |-> 0, value |-> 0, gate |-> FALSE]

ZeroPort == [ccr |-> NULL_CCR, tim |-> NULL_TIM, period |-> 0, pwmWritePtr |-> NULL_FN]

Op(name, index, value, hw) == [op |-> name, index |-> index, value |-> value, hw |-> hw]

Ev(name, tim, channel, value) == [ev |-> name, tim |-> tim, channel |-> channel, value |-> value]

Init ==
    /\ pwmOutputPorts = [c \in 0..(PoolCells - 1) |-> ZeroPort]
    /\ motors = [i \in 0..(MAX_PWM_MOTORS - 1) |-> NULL]
    /\ servos = [i \in 0..(MAX_PWM_SERVOS - 1) |-> NULL]
    /\ allocatedOutputPortCount = 0
    /\ pwmMotorsEnabled = TRUE
    /\ CCR = [r \in Registers |-> 0]
    /\ halted = FALSE
    /\ lastOp = Op("init", 0, 0, 0)
    /\ trace = << >>
    /\ pc = "idle"
    /\ call = NoCall

(* ------------------------------------------------------------------ *)
(* pwmOutConfig                                                         *)
(* ------------------------------------------------------------------ *)
\* Mutant: the port is bound without looking at the handle.
pwmOutConfigPort_NoCheck(p, hw, period) ==
    [p EXCEPT !.ccr = <<hw.tim, hw.channel>>, !.period = period, !.tim = hw.tim]

\* The record left in cell p's place by pwmOutConfig.
pwmOutConfigPort(p, hw, period) ==
    IF timerFindTimerHandle(hw.tim) = NULL_TIM
    THEN p
    ELSE [p EXCEPT !.ccr = IF hw.channel \in 1..4 THEN <<hw.tim, hw.channel>> ELSE @,
                   !.period = period,
                   !.tim = hw.tim]

\* The calls pwmOutConfig makes into the timer and GPIO abstraction.
pwmOutConfigCalls(hw, period, value) ==
    IF timerFindTimerHandle(hw.tim) = NULL_TIM
    THEN << >>
    ELSE << Ev("configTimeBase", hw.tim, 0, period),
            Ev("HAL_GPIO_Init", hw.tim, hw.channel, 0),
            Ev("HAL_TIM_PWM_ConfigChannel", hw.tim, hw.channel, value),
            Ev(IF hw.outputEnable THEN "HAL_TIM_PWM_Start" ELSE "HAL_TIM_PWM_Stop",
               hw.tim, hw.channel, 0),
            Ev("HAL_TIM_Base_Start", hw.tim, 0, 0) >>

\* The compare registers after pwmOCConfig: the channel is preloaded with value.
pwmOCConfig(regs, hw, value) ==
    IF timerFindTimerHandle(hw.tim) = NULL_TIM \/ <<hw.tim, hw.channel>> \notin Registers
    THEN regs
    ELSE [regs EXCEPT ![<<hw.tim, hw.channel>>] = value]

\* Mutant: a descriptor whose timer does not resolve takes no cell.
ConfigCall_NoSlotOnUnresolved(name, h, index, period, value, isMotor, writePtr) ==
    LET hw == timerHardware[h]
        found == timerFindTimerHandle(hw.tim) # NULL_TIM
        cell == allocatedOutputPortCount
        p == pwmOutConfigPort(pwmOutputPorts[cell], hw, period)
    IN  /\ Idle
        /\ allocatedOutputPortCount' = allocatedOutputPortCount + (IF found THEN 1 ELSE 0)
        /\ pwmOutputPorts' = [pwmOutputPorts EXCEPT
                                ![cell] = IF isMotor THEN [p EXCEPT !.pwmWritePtr = writePtr]
                                                     ELSE p]
        /\ motors' = IF isMotor THEN [motors EXCEPT ![index] = cell] ELSE motors
        /\ servos' = IF isMotor THEN servos ELSE [servos EXCEPT ![index] = cell]
        /\ CCR' = pwmOCConfig(CCR, hw, value)
        /\ trace' = pwmOutConfigCalls(hw, period, value)
        /\ lastOp' = Op(name, index, value, h)
        /\ UNCHANGED <<pwmMotorsEnabled, halted, loop>>

\* Mutant: the new period is copied to every port on the same timer.
ConfigCall_SharesPeriod(name, h, index, period, value, isMotor, writePtr) ==
    LET hw == timerHardware[h]
        cell == allocatedOutputPortCount
        p == pwmOutConfigPort(pwmOutputPorts[cell], hw, period)
        q == IF isMotor THEN [p EXCEPT !.pwmWritePtr = writePtr] ELSE p
    IN  /\ Idle
        /\ allocatedOutputPortCount' = allocatedOutputPortCount + 1
        /\ pwmOutputPorts' =
               [c \in DOMAIN pwmOutputPorts |->
                   IF c = cell THEN q
                   ELSE IF q.tim # NULL_TIM /\ pwmOutputPorts[c].tim = q.tim
                        THEN [pwmOutputPorts[c] EXCEPT !.period = period]
                        ELSE pwmOutputPorts[c]]
        /\ motors' = IF isMotor THEN [motors EXCEPT ![index] = cell] ELSE motors
        /\ servos' = IF isMotor THEN servos ELSE [servos EXCEPT ![index] = cell]
        /\ CCR' = pwmOCConfig(CCR, hw, value)
        /\ trace' = pwmOutConfigCalls(hw, period, value)
        /\ lastOp' = Op(name, index, value, h)
        /\ UNCHANGED <<pwmMotorsEnabled, halted, loop>>

\* Mutant: an index configured again keeps the cell it already has.
ConfigCall_Reuse(name, h, index, period, value, isMotor, writePtr) ==
    LET hw == timerHardware[h]
        old == IF isMotor THEN motors[index] ELSE servos[index]
        cell == IF old # NULL THEN old ELSE allocatedOutputPortCount
        p == pwmOutConfigPort(pwmOutputPorts[cell], hw, period)
    IN  /\ Idle
        /\ allocatedOutputPortCount' = allocatedOutputPortCount + 1
        /\ pwmOutputPorts' = [pwmOutputPorts EXCEPT
                                ![cell] = IF isMotor THEN [p EXCEPT !.pwmWritePtr = writePtr]
                                                     ELSE p]
        /\ motors' = IF isMotor THEN [motors EXCEPT ![index] = cell] ELSE motors
        /\ servos' = IF isMotor THEN servos ELSE [servos EXCEPT ![index] = cell]
        /\ CCR' = pwmOCConfig(CCR, hw, value)
        /\ trace' = pwmOutConfigCalls(hw, period, value)
        /\ lastOp' = Op(name, index, value, h)
        /\ UNCHANGED <<pwmMotorsEnabled, halted, loop>>

\* pwmOutConfig followed by the caller's stores into table and port.
ConfigCall(name, h, index, period, value, isMotor, writePtr) ==
    LET hw == timerHardware[h]
        cell == allocatedOutputPortCount
        p == pwmOutConfigPort(pwmOutputPorts[cell], hw, period)
    IN  /\ Idle
        /\ allocatedOutputPortCount' = allocatedOutputPortCount + 1
        /\ pwmOutputPorts' = [pwmOutputPorts EXCEPT
                                ![cell] = IF isMotor THEN [p EXCEPT !.pwmWritePtr = writePtr]
                                                     ELSE p]
        /\ motors' = IF isMotor THEN [motors EXCEPT ![index] = cell] ELSE motors
        /\ servos' = IF isMotor THEN servos ELSE [servos EXCEPT ![index] = cell]
        /\ CCR' = pwmOCConfig(CCR, hw, value)
        /\ trace' = pwmOutConfigCalls(hw, period, value)
        /\ lastOp' = Op(name, index, value, h)
        /\ UNCHANGED <<pwmMotorsEnabled, halted, loop>>

pwmBrushedMotorConfig(h, motorIndex, motorPwmRate, idlePulse) ==
    LET hz == PWM_BRUSHED_TIMER_MHZ * 1000000
    IN  ConfigCall("pwmBrushedMotorConfig", h, motorIndex,
                   ToUint16(hz \div motorPwmRate), idlePulse, TRUE, "pwmWriteBrushed")

pwmBrushlessMotorConfig(h, motorIndex, motorPwmRate, idlePulse) ==
    LET hz == PWM_TIMER_MHZ * 1000000
    IN  ConfigCall("pwmBrushlessMotorConfig", h, motorIndex,
                   ToUint16(hz \div motorPwmRate), idlePulse, TRUE, "pwmWriteStandard")

pwmOneshotMotorConfig(h, motorIndex) ==
    ConfigCall("pwmOneshotMotorConfig", h, motorIndex,
               ONESHOT_PERIOD, 0, TRUE, "pwmWriteStandard")

pwmServoConfig(h, servoIndex, servoPwmRate, servoCenterPulse) ==
    ConfigCall("pwmServoConfig", h, servoIndex,
               ToUint16(1000000 \div servoPwmRate), servoCenterPulse, FALSE, NULL_FN)

(* ------------------------------------------------------------------ *)
(* Gate                                                                 *)
(* ------------------------------------------------------------------ *)
pwmDisableMotors ==
    /\ Running
    /\ pwmMotorsEnabled' = FALSE
    /\ lastOp' = Op("pwmDisableMotors", 0, 0, 0)
    /\ trace' = << >>
    /\ UNCHANGED <<pwmOutputPorts, motors, servos, allocatedOutputPortCount, CCR, halted, loop>>

\* Mutant: the call flips the gate instead of setting it.
pwmEnableMotors_Toggle ==
    /\ Running
    /\ pwmMotorsEnabled' = ~pwmMotorsEnabled
    /\ lastOp' = Op("pwmEnableMotors", 0, 0, 0)
    /\ trace' = << >>
    /\ UNCHANGED <<pwmOutputPorts, motors, servos, allocatedOutputPortCount, CCR, halted, loop>>

pwmEnableMotors ==
    /\ Running
    /\ pwmMotorsEnabled' = TRUE
    /\ lastOp' = Op("pwmEnableMotors", 0, 0, 0)
    /\ trace' = << >>
    /\ UNCHANGED <<pwmOutputPorts, motors, servos, allocatedOutputPortCount, CCR, halted, loop>>

(* ------------------------------------------------------------------ *)
(* Stores through a port                                                *)
(* ------------------------------------------------------------------ *)
\* Result of a call: the registers, what happened, whether a wild access occurred.
Eff(regs, tr, fault) == [CCR |-> regs, trace |-> tr, fault |-> fault]

\* Mutant: the store reaches every compare register of the handle's timer.
StoreCcr_WholeTimer(regs, handle, value) ==
    IF handle \in Registers
    THEN Eff([r \in Registers |-> IF r[1] = handle[1] THEN value ELSE regs[r]],
             << Ev("store", handle[1], handle[2], value) >>, FALSE)
    ELSE Eff(regs, << Ev("wildStore", NULL_TIM, 0, value) >>, TRUE)

\* *ccr = value.  A handle bound to no register is a store to a wild address.
StoreCcr(regs, handle, value) ==
    IF handle \in Registers
    THEN Eff([regs EXCEPT ![handle] = value],
             << Ev("store", handle[1], handle[2], value) >>, FALSE)
    ELSE Eff(regs, << Ev("wildStore", NULL_TIM, 0, value) >>, TRUE)

\* Mutant: the product is formed in 16 bits.
pwmWriteBrushedValue_U16(value, period) == CDiv(ToUint16((value - 1000) * period), 1000)

\* (value - 1000) * period / 1000, in int.
pwmWriteBrushedValue(value, period) == CDiv((value - 1000) * period, 1000)

pwmWriteBrushed(regs, p, value) == StoreCcr(regs, p.ccr, pwmWriteBrushedValue(value, p.period))

\* Mutant: the standard strategy scales like the brushed one.
pwmWriteStandard_Scaled(regs, p, value) == pwmWriteBrushed(regs, p, value)

pwmWriteStandard(regs, p, value) == StoreCcr(regs, p.ccr, value)

\* motors[index]->pwmWritePtr(index, value)
CallWritePtr(regs, p, value) ==
    CASE p.pwmWritePtr = "pwmWriteBrushed"  -> pwmWriteBrushed(regs, p, value)
      [] p.pwmWritePtr = "pwmWriteStandard" -> pwmWriteStandard(regs, p, value)
      [] OTHER -> Eff(regs, << Ev("wildCall", NULL_TIM, 0, value) >>, TRUE)

\* The events of reading table element index of a table with size elements.
TableRead(table, index, size) ==
    IF index < size THEN << >> ELSE << Ev("oobRead", table, index, 0) >>

\* Mutant: the gate is not part of the condition.
pwmWriteMotorTaken_NoGate(index, enabled) ==
    /\ index < MAX_PWM_MOTORS
    /\ motors[index] # NULL
    /\ index < MAX_MOTORS

\* if (motors[index] && index < MAX_MOTORS && pwmMotorsEnabled)
pwmWriteMotorTaken(index, enabled) ==
    /\ index < MAX_PWM_MOTORS
    /\ motors[index] # NULL
    /\ index < MAX_MOTORS
    /\ enabled

(* An element read beyond motors[] or servos[] yields whatever lies there; with   *)
(* MAX_PWM_MOTORS = MAX_MOTORS the range test that follows fails for it.          *)
pwmWriteMotor(index, value, trap) ==
    /\ Idle
    /\ \E eff \in {IF pwmWriteMotorTaken(index, pwmMotorsEnabled)
                    THEN CallWritePtr(CCR, pwmOutputPorts[motors[index]], value)
                    ELSE Eff(CCR, << >>, FALSE)} :
        /\ CCR' = eff.CCR
        /\ trace' = TableRead("motors", index, MAX_PWM_MOTORS) \o eff.trace
        /\ halted' = (eff.fault /\ trap)
        /\ lastOp' = Op("pwmWriteMotor", index, value, 0)
        /\ UNCHANGED <<pwmOutputPorts, motors, servos, allocatedOutputPortCount,
                       pwmMotorsEnabled, loop>>

\* if (servos[index] && index < MAX_SERVOS)
pwmWriteServoTaken(index) ==
    /\ index < MAX_PWM_SERVOS
    /\ servos[index] # NULL
    /\ index < MAX_SERVOS

pwmWriteServo(index, value, trap) ==
    /\ Idle
    /\ \E eff \in {IF pwmWriteServoTaken(index)
                    THEN StoreCcr(CCR, pwmOutputPorts[servos[index]].ccr, value)
                    ELSE Eff(CCR, << >>, FALSE)} :
        /\ CCR' = eff.CCR
        /\ trace' = TableRead("servos", index, MAX_PWM_SERVOS) \o eff.trace
        /\ halted' = (eff.fault /\ trap)
        /\ lastOp' = Op("pwmWriteServo", index, value, 0)
        /\ UNCHANGED <<pwmOutputPorts, motors, servos, allocatedOutputPortCount,
                       pwmMotorsEnabled, loop>>

(* ------------------------------------------------------------------ *)
(* pwmWriteMotor in the control loop while the safety monitor (an       *)
(* interrupt or a second task) calls pwmDisableMotors / pwmEnableMotors *)
(* at any point: the call is three steps, split where it loads the      *)
(* gate.  The tables are written by the control loop only.              *)
(* ------------------------------------------------------------------ *)
\* Mutant: the condition uses a copy of the gate taken when it was open.
GateLoad_Stale == TRUE

\* The one load of pwmMotorsEnabled in the condition of pwmWriteMotor.
GateLoad == pwmMotorsEnabled

\* motors[index] && index < MAX_MOTORS
pwmWriteMotorEnter(index, value) ==
    /\ Idle
    /\ call' = [index |-> index, value |-> value, gate |-> FALSE]
    /\ pc' = IF pwmWriteMotorTaken(index, TRUE) THEN "loadGate" ELSE "idle"
    /\ lastOp' = Op("pwmWriteMotor", index, value, 0)
    /\ trace' = TableRead("motors", index, MAX_PWM_MOTORS)
    /\ UNCHANGED <<pwmOutputPorts, motors, servos, allocatedOutputPortCount,
                   pwmMotorsEnabled, CCR, halted>>

\* && pwmMotorsEnabled
pwmWriteMotorLoadGate ==
    /\ Running
    /\ pc = "loadGate"
    /\ \E g \in {GateLoad} :
        /\ call' = [call EXCEPT !.gate = g]
        /\ pc' = IF pwmWriteMotorTaken(call.index, g) THEN "store" ELSE "idle"
        /\ lastOp' = Op("pwmWriteMotor", call.index, call.value, 0)
        /\ trace' = << >>
    /\ UNCHANGED <<pwmOutputPorts, motors, servos, allocatedOutputPortCount,
                   pwmMotorsEnabled, CCR, halted>>

\* motors[index]->pwmWritePtr(index, value)
pwmWriteMotorStore(trap) ==
    /\ Running
    /\ pc = "store"
    /\ \E eff \in {CallWritePtr(CCR, pwmOutputPorts[motors[call.index]], call.value)} :
        /\ CCR' = eff.CCR
        /\ trace' = eff.trace
        /\ halted' = (eff.fault /\ trap)
    /\ pc' = "idle"
    /\ lastOp' = Op("pwmWriteMotor", call.index, call.value, 0)
    /\ UNCHANGED <<pwmOutputPorts, motors, servos, allocatedOutputPortCount,
                   pwmMotorsEnabled, call>>

(* ------------------------------------------------------------------ *)
(* Loops over motors 0 .. motorCount-1                                  *)
(* ------------------------------------------------------------------ *)
\* motors[index] as the loops read it: no range test, no NULL test.  oobPtr is
\* what the memory behind the table holds.
LoopSlot(index, oobPtr) == IF index < MAX_PWM_MOTORS THEN motors[index] ELSE oobPtr

\* Result of a loop: registers, events, whether a wild access occurred, whether
\* it trapped.
LoopRes(regs, tr, fault, stop) == [CCR |-> regs, trace |-> tr, fault |-> fault, halted |-> stop]

\* Mutant: the loop honours the gate and leaves the registers when it is closed.
RECURSIVE ZeroLoop_Gated(_, _, _, _, _, _, _)
ZeroLoop_Gated(index, motorCount, regs, tr, fault, trap, oobPtr) ==
    IF index >= motorCount \/ ~pwmMotorsEnabled
    THEN LoopRes(regs, tr, fault, FALSE)
    ELSE LET ptr == LoopSlot(index, oobPtr)
             eff == IF ptr = NULL
                    THEN Eff(regs, << Ev("nullPort", NULL_TIM, index, 0) >>, TRUE)
                    ELSE StoreCcr(regs, pwmOutputPorts[ptr].ccr, 0)
         IN  ZeroLoop_Gated(index + 1, motorCount, eff.CCR, tr \o eff.trace,
                            fault \/ eff.fault, trap, oobPtr)

\* for (index = 0; index < motorCount; index++) *motors[index]->ccr = 0;
RECURSIVE ZeroLoop(_, _, _, _, _, _, _)
ZeroLoop(index, motorCount, regs, tr, fault, trap, oobPtr) ==
    IF index >= motorCount
    THEN LoopRes(regs, tr, fault, FALSE)
    ELSE LET ptr == LoopSlot(index, oobPtr)
             rd == TableRead("motors", index, MAX_PWM_MOTORS)
             eff == IF ptr = NULL
                    THEN Eff(regs, << Ev("nullPort", NULL_TIM, index, 0),
                                      Ev("wildStore", NULL_TIM, 0, 0) >>, TRUE)
                    ELSE StoreCcr(regs, pwmOutputPorts[ptr].ccr, 0)
         IN  IF eff.fault /\ trap
             THEN LoopRes(regs, tr \o rd \o eff.trace, TRUE, TRUE)
             ELSE ZeroLoop(index + 1, motorCount, eff.CCR, tr \o rd \o eff.trace,
                           fault \/ eff.fault, trap, oobPtr)

pwmShutdownPulsesForAllMotors(motorCount, trap, oobPtr) ==
    /\ Idle
    /\ \E res \in {ZeroLoop(0, motorCount, CCR, << >>, FALSE, trap, oobPtr)} :
        /\ CCR' = res.CCR
        /\ trace' = res.trace
        /\ halted' = res.halted
        /\ lastOp' = Op("pwmShutdownPulsesForAllMotors", motorCount, 0, 0)
        /\ UNCHANGED <<pwmOutputPorts, motors, servos, allocatedOutputPortCount,
                       pwmMotorsEnabled, loop>>

\* Mutant: every motor forces the overflow of its timer, shared or not.
RECURSIVE OverflowLoop_EveryMotor(_, _, _, _, _, _, _)
OverflowLoop_EveryMotor(index, motorCount, lastTimerPtr, tr, fault, trap, oobPtr) ==
    IF index >= motorCount
    THEN LoopRes(CCR, tr, fault, FALSE)
    ELSE LET ptr == LoopSlot(index, oobPtr)
             tim == IF ptr = NULL THEN "WILD" ELSE pwmOutputPorts[ptr].tim
         IN  OverflowLoop_EveryMotor(index + 1, motorCount, tim,
                                     tr \o << Ev("timerForceOverflow", tim, 0, 0) >>,
                                     fault \/ tim \notin UsedTimers, trap, oobPtr)

\* Mutant: the overflow of a timer already forced earlier in the scan is skipped
\* (the timers are deduplicated by identity, not by adjacency).
RECURSIVE OverflowLoop_BySet(_, _, _, _, _, _, _)
OverflowLoop_BySet(index, motorCount, lastTimerPtr, tr, fault, trap, oobPtr) ==
    IF index >= motorCount
    THEN LoopRes(CCR, tr, fault, FALSE)
    ELSE LET ptr == LoopSlot(index, oobPtr)
             tim == IF ptr = NULL THEN "WILD" ELSE pwmOutputPorts[ptr].tim
             seen == \E k \in 1..Len(tr) : tr[k].ev = "timerForceOverflow" /\ tr[k].tim = tim
         IN  OverflowLoop_BySet(index + 1, motorCount, tim,
                                IF seen \/ tim = NULL_TIM
                                THEN tr
                                ELSE tr \o << Ev("timerForceOverflow", tim, 0, 0) >>,
                                fault \/ tim \notin UsedTimers, trap, oobPtr)

\* The first loop of pwmCompleteOneshotMotorUpdate.  Forcing the overflow of a
\* timer pointer that is NULL or read through a NULL port is a wild access.
RECURSIVE OverflowLoop(_, _, _, _, _, _, _)
OverflowLoop(index, motorCount, lastTimerPtr, tr, fault, trap, oobPtr) ==
    IF index >= motorCount
    THEN LoopRes(CCR, tr, fault, FALSE)
    ELSE LET ptr == LoopSlot(index, oobPtr)
             rd == TableRead("motors", index, MAX_PWM_MOTORS)
             tim == IF ptr = NULL THEN "WILD" ELSE pwmOutputPorts[ptr].tim
             pre == IF ptr = NULL THEN << Ev("nullPort", NULL_TIM, index, 0) >> ELSE << >>
             wild == tim \notin UsedTimers
         IN  IF tim # lastTimerPtr
             THEN LET ev == tr \o rd \o pre \o << Ev("timerForceOverflow", tim, 0, 0) >>
                  IN  IF wild /\ trap
                      THEN LoopRes(CCR, ev, TRUE, TRUE)
                      ELSE OverflowLoop(index + 1, motorCount, tim, ev, fault \/ wild,
                                        trap, oobPtr)
             ELSE OverflowLoop(index + 1, motorCount, lastTimerPtr, tr \o rd \o pre,
                               fault, trap, oobPtr)

\* Mutant: one loop that forces the timer of a motor and zeroes its register
\* before it moves to the next motor.
RECURSIVE OnePassLoop(_, _, _, _, _, _)
OnePassLoop(index, motorCount, lastTimerPtr, regs, tr, oobPtr) ==
    IF index >= motorCount
    THEN LoopRes(regs, tr, FALSE, FALSE)
    ELSE LET ptr == LoopSlot(index, oobPtr)
             tim == IF ptr = NULL THEN "WILD" ELSE pwmOutputPorts[ptr].tim
             ovf == IF tim # lastTimerPtr
                    THEN << Ev("timerForceOverflow", tim, 0, 0) >> ELSE << >>
             eff == IF ptr = NULL
                    THEN Eff(regs, << Ev("wildStore", NULL_TIM, 0, 0) >>, TRUE)
                    ELSE StoreCcr(regs, pwmOutputPorts[ptr].ccr, 0)
         IN  OnePassLoop(index + 1, motorCount, tim, eff.CCR, tr \o ovf \o eff.trace, oobPtr)

pwmCompleteOneshotMotorUpdate_OnePass(motorCount, trap, oobPtr) ==
    /\ Idle
    /\ \E res \in {OnePassLoop(0, motorCount, NULL_TIM, CCR, << >>, oobPtr)} :
        /\ CCR' = res.CCR
        /\ trace' = res.trace
        /\ halted' = FALSE
        /\ lastOp' = Op("pwmCompleteOneshotMotorUpdate", motorCount, 0, 0)
        /\ UNCHANGED <<pwmOutputPorts, motors, servos, allocatedOutputPortCount,
                       pwmMotorsEnabled, loop>>

pwmCompleteOneshotMotorUpdate(motorCount, trap, oobPtr) ==
    /\ Idle
    /\ \E first \in {OverflowLoop(0, motorCount, NULL_TIM, << >>, FALSE, trap, oobPtr)} :
       \E res \in {IF first.halted
                    THEN first
                    ELSE ZeroLoop(0, motorCount, CCR, first.trace, first.fault, trap, oobPtr)} :
        /\ CCR' = res.CCR
        /\ trace' = res.trace
        /\ halted' = res.halted
        /\ lastOp' = Op("pwmCompleteOneshotMotorUpdate", motorCount, 0, 0)
        /\ UNCHANGED <<pwmOutputPorts, motors, servos, allocatedOutputPortCount,
                       pwmMotorsEnabled, loop>>

(* ------------------------------------------------------------------ *)
(* Next-state relation                                                  *)
(* ------------------------------------------------------------------ *)
\* What an element read behind motors[] may hold: NULL or any allocated port.
OobPtrs(motorCount) ==
    IF motorCount > MAX_PWM_MOTORS
    THEN {NULL} \cup 0..(allocatedOutputPortCount - 1)
    ELSE {NULL}

\* Whether a wild access traps is the platform's choice; it is enumerated only
\* for calls that perform one.
Traps(fault) == IF fault THEN BOOLEAN ELSE {FALSE}

pwmWriteMotorFaults(index, value) ==
    /\ pwmWriteMotorTaken(index, pwmMotorsEnabled)
    /\ CallWritePtr(CCR, pwmOutputPorts[motors[index]], value).fault

pwmWriteServoFaults(index, value) ==
    /\ pwmWriteServoTaken(index)
    /\ StoreCcr(CCR, pwmOutputPorts[servos[index]].ccr, value).fault

ShutdownFaults(motorCount, oobPtr) ==
    ZeroLoop(0, motorCount, CCR, << >>, FALSE, FALSE, oobPtr).fault

OneshotFaults(motorCount, oobPtr) ==
    \/ OverflowLoop(0, motorCount, NULL_TIM, << >>, FALSE, FALSE, oobPtr).fault
    \/ ShutdownFaults(motorCount, oobPtr)

(* The caller (the board's output mapping) fills the tables from index 0 up,  *)
(* each index once, and drives all motors of a board with one protocol.       *)
MotorIndexChoices ==
    {i \in 0..(MAX_PWM_MOTORS - 1) : motors[i] = NULL /\ (i = 0 \/ motors[i - 1] # NULL)}

ServoIndexChoices ==
    {j \in 0..(MAX_PWM_SERVOS - 1) : servos[j] = NULL /\ (j = 0 \/ servos[j - 1] # NULL)}

ProtocolAgrees(writePtr, period) ==
    \A i \in 0..(MAX_PWM_MOTORS - 1) :
        motors[i] # NULL =>
            /\ pwmOutputPorts[motors[i]].pwmWritePtr = writePtr
            /\ pwmOutputPorts[motors[i]].tim # NULL_TIM => pwmOutputPorts[motors[i]].period = period

ConfigureBrushed ==
    \E h \in HwInputs, i \in MotorIndexChoices :
        \E r \in BrushedRates, v \in IdlePulses :
            /\ ProtocolAgrees("pwmWriteBrushed", ToUint16((PWM_BRUSHED_TIMER_MHZ * 1000000) \div r))
            /\ pwmBrushedMotorConfig(h, i, r, v)

ConfigureBrushless ==
    \E h \in HwInputs, i \in MotorIndexChoices :
        \E r \in BrushlessRates, v \in IdlePulses :
            /\ ProtocolAgrees("pwmWriteStandard", ToUint16((PWM_TIMER_MHZ * 1000000) \div r))
            /\ pwmBrushlessMotorConfig(h, i, r, v)

ConfigureOneshot ==
    \E h \in HwInputs, i \in MotorIndexChoices :
        /\ ProtocolAgrees("pwmWriteStandard", ONESHOT_PERIOD)
        /\ pwmOneshotMotorConfig(h, i)

ConfigureServo ==
    \E h \in HwInputs, j \in ServoIndexChoices :
        \E r \in ServoRates, v \in IdlePulses : pwmServoConfig(h, j, r, v)

WriteMotor ==
    \E i \in IndexInputs, v \in Values :
        \E trap \in Traps(pwmWriteMotorFaults(i, v)) : pwmWriteMotor(i, v, trap)

WriteServo ==
    \E i \in ServoIndexInputs, v \in Values :
        \E trap \in Traps(pwmWriteServoFaults(i, v)) : pwmWriteServo(i, v, trap)

Shutdown ==
    \E n \in CountInputs :
        \E oobPtr \in OobPtrs(n) :
            \E trap \in Traps(ShutdownFaults(n, oobPtr)) :
                pwmShutdownPulsesForAllMotors(n, trap, oobPtr)

OneshotUpdate ==
    \E n \in CountInputs :
        \E oobPtr \in OobPtrs(n) :
            \E trap \in Traps(OneshotFaults(n, oobPtr)) :
                pwmCompleteOneshotMotorUpdate(n, trap, oobPtr)

Next ==
    \/ ConfigureBrushed
    \/ ConfigureBrushless
    \/ ConfigureOneshot
    \/ ConfigureServo
    \/ WriteMotor
    \/ WriteServo
    \/ Shutdown
    \/ OneshotUpdate
    \/ pwmDisableMotors
    \/ pwmEnableMotors

Spec == Init /\ [][Next]_vars

(* ------------------------------------------------------------------ *)
(* SpecOneshot: a board of oneshot motors on any of the four channels,  *)
(* in any order, with the per-cycle write and synchronisation.          *)
(* ------------------------------------------------------------------ *)
OneshotBoardConfigure ==
    \E h \in 1..Len(timerHardware), i \in 0..(MAX_PWM_MOTORS - 1) : pwmOneshotMotorConfig(h, i)

OneshotWrite ==
    \E i \in 0..(MAX_PWM_MOTORS - 1), v \in Values :
        \E trap \in Traps(pwmWriteMotorFaults(i, v)) : pwmWriteMotor(i, v, trap)

NextOneshot ==
    \/ OneshotBoardConfigure
    \/ OneshotWrite
    \/ OneshotUpdate

SpecOneshot == Init /\ [][NextOneshot]_vars

(* ------------------------------------------------------------------ *)
(* SpecSweep: one motor, configured once at any of the rates below,     *)
(* commanded with every value from 1000 to 2000 in turn.                *)
(* ------------------------------------------------------------------ *)
SweepValues == 1000..2000
SweepBrushedRates == {123, 501, 999, 7999, 8000, 16000, 65535}

\* The next command of the ramp after the write that ran last.
SweepStart == CHOOSE v \in SweepValues : \A w \in SweepValues : v <= w
SweepNext(op) ==
    IF lastOp.op = op THEN {lastOp.value + 1} \cap SweepValues ELSE {SweepStart}

SweepConfigureMotor ==
    /\ allocatedOutputPortCount = 0
    /\ \E h \in 1..2, i \in 0..(MAX_PWM_MOTORS - 1) :
        \/ \E r \in SweepBrushedRates, v \in IdlePulses : pwmBrushedMotorConfig(h, i, r, v)
        \/ \E r \in BrushlessRates, v \in IdlePulses : pwmBrushlessMotorConfig(h, i, r, v)
        \/ pwmOneshotMotorConfig(h, i)

SweepConfigureServo ==
    /\ allocatedOutputPortCount = 0
    /\ \E h \in 1..2, j \in 0..(MAX_PWM_SERVOS - 1) :
        \E r \in ServoRates, v \in IdlePulses : pwmServoConfig(h, j, r, v)

SweepWriteMotor ==
    \E i \in 0..(MAX_PWM_MOTORS - 1), v \in SweepNext("pwmWriteMotor") :
        /\ motors[i] # NULL
        /\ pwmWriteMotor(i, v, FALSE)

SweepWriteServo ==
    \E j \in 0..(MAX_PWM_SERVOS - 1), v \in SweepNext("pwmWriteServo") :
        /\ servos[j] # NULL
        /\ pwmWriteServo(j, v, FALSE)

NextSweep ==
    \/ SweepConfigureMotor
    \/ SweepConfigureServo
    \/ SweepWriteMotor
    \/ SweepWriteServo

SpecSweep == Init /\ [][NextSweep]_vars

(* ------------------------------------------------------------------ *)
(* SpecConc: the control loop configures and writes motors step by      *)
(* step; the safety monitor sets the gate between any two steps.        *)
(* ------------------------------------------------------------------ *)
ConcWriteEnter == \E i \in IndexInputs, v \in Values : pwmWriteMotorEnter(i, v)

ConcWriteStore ==
    \E trap \in Traps(pc = "store" /\
                      CallWritePtr(CCR, pwmOutputPorts[motors[call.index]], call.value).fault) :
        pwmWriteMotorStore(trap)

NextConc ==
    \/ ConfigureBrushed
    \/ ConfigureBrushless
    \/ ConcWriteEnter
    \/ pwmWriteMotorLoadGate
    \/ ConcWriteStore
    \/ pwmDisableMotors
    \/ pwmEnableMotors

SpecConc == Init /\ [][NextConc]_vars

(* ------------------------------------------------------------------ *)
(* SpecRebind: any output may be configured again, on the same or on    *)
(* another descriptor, between the run-time calls.                      *)
(* ------------------------------------------------------------------ *)
\* Descriptors of SpecRebind: TIM1_CH1 and the unresolvable TIM9_CH1.  Brushed
\* motors are put on the first, oneshot motors on the second, brushless motors
\* and servos on either; motors 0 and 1 are configured, any number of times.
RebindHwInputs == {1, 3}
RebindMotorIndices == {i \in 0..(MAX_PWM_MOTORS - 1) : i <= 1}

RebindConfigureMotor ==
    \E i \in RebindMotorIndices :
        \/ \E r \in BrushedRates, v \in IdlePulses : pwmBrushedMotorConfig(1, i, r, v)
        \/ \E h \in RebindHwInputs, r \in BrushlessRates, v \in IdlePulses :
               pwmBrushlessMotorConfig(h, i, r, v)
        \/ pwmOneshotMotorConfig(3, i)

RebindConfigureServo ==
    \E h \in RebindHwInputs, j \in 0..(MAX_PWM_SERVOS - 1) :
        \E r \in ServoRates, v \in IdlePulses : pwmServoConfig(h, j, r, v)

NextRebind ==
    \/ RebindConfigureMotor
    \/ RebindConfigureServo
    \/ WriteMotor
    \/ WriteServo
    \/ Shutdown
    \/ OneshotUpdate
    \/ pwmDisableMotors
    \/ pwmEnableMotors

SpecRebind == Init /\ [][NextRebind]_vars

(* ------------------------------------------------------------------ *)
(* Properties                                                           *)
(* ------------------------------------------------------------------ *)
\* Motor i / servo j is bound to a port whose compare-register handle is bound.
MotorConfigured(i) ==
    /\ i \in 0..(MAX_PWM_MOTORS - 1)
    /\ motors[i] # NULL
    /\ pwmOutputPorts[motors[i]].ccr \in Registers

ServoConfigured(j) ==
    /\ j \in 0..(MAX_PWM_SERVOS - 1)
    /\ servos[j] # NULL
    /\ pwmOutputPorts[servos[j]].ccr \in Registers

MotorPort(i) == pwmOutputPorts[motors[i]]
MotorReg(i) == pwmOutputPorts[motors[i]].ccr
ServoReg(j) == pwmOutputPorts[servos[j]].ccr

\* What the strategy selected at configuration makes of command v.
Transformed(p, v) ==
    IF p.pwmWritePtr = "pwmWriteBrushed" THEN ((v - 1000) * p.period) \div 1000 ELSE v

GateOps == {"pwmDisableMotors", "pwmEnableMotors"}
ConfigOps == {"pwmBrushedMotorConfig", "pwmBrushlessMotorConfig",
              "pwmOneshotMotorConfig", "pwmServoConfig"}
RunTimeOps == {"pwmWriteMotor", "pwmWriteServo", "pwmShutdownPulsesForAllMotors",
               "pwmCompleteOneshotMotorUpdate"}

\* C1: the gate is closed exactly by pwmDisableMotors and opened exactly by
\* pwmEnableMotors; while it is closed a pwmWriteMotor call, whatever its index
\* and value, leaves every compare register as it was; while it is open a
\* pwmWriteMotor call on a configured motor leaves the strategy-transformed
\* value in that motor's register; a pwmWriteServo call on a configured servo
\* leaves the commanded value in the servo's register in both gate states.
C1_GateSuppressesMotorWrites ==
    [][ /\ lastOp'.op = "pwmDisableMotors" => ~pwmMotorsEnabled'
        /\ lastOp'.op = "pwmEnableMotors" => pwmMotorsEnabled'
        /\ lastOp'.op \notin GateOps => pwmMotorsEnabled' = pwmMotorsEnabled
        /\ (lastOp'.op = "pwmWriteMotor" /\ ~pwmMotorsEnabled) => CCR' = CCR
        /\ (lastOp'.op = "pwmWriteMotor" /\ pwmMotorsEnabled
                /\ MotorConfigured(lastOp'.index)) =>
               CCR'[MotorReg(lastOp'.index)] =
                   Transformed(MotorPort(lastOp'.index), lastOp'.value)
        /\ (lastOp'.op = "pwmWriteServo" /\ ServoConfigured(lastOp'.index)) =>
               CCR'[ServoReg(lastOp'.index)] = lastOp'.value
      ]_vars

\* A write to a configured motor was suppressed by the closed gate: the register
\* still holds something else than the command would have stored.
C1_Witness ==
    /\ lastOp.op = "pwmWriteMotor"
    /\ ~pwmMotorsEnabled
    /\ MotorConfigured(lastOp.index)
    /\ trace = << >>
    /\ CCR[MotorReg(lastOp.index)] # Transformed(MotorPort(lastOp.index), lastOp.value)

\* Motors 0..n-1 are all bound to ports on resolved timers.
OneshotBoard(n) ==
    /\ n \in 0..MAX_PWM_MOTORS
    /\ \A i \in 0..(n - 1) : MotorConfigured(i) /\ MotorPort(i).tim \in UsedTimers

\* How often the last call forced the overflow of timer t.
ForcedOverflows(t) ==
    Cardinality({k \in 1..Len(trace) : trace[k].ev = "timerForceOverflow" /\ trace[k].tim = t})

\* The maximal runs of consecutive motor indices below n that sit on timer t.
TimerRuns(n, t) ==
    Cardinality({i \in 0..(n - 1) : MotorPort(i).tim = t /\ (i = 0 \/ MotorPort(i - 1).tim # t)})

AllForcedTimersResolved ==
    \A k \in 1..Len(trace) : trace[k].ev = "timerForceOverflow" => trace[k].tim \in UsedTimers

\* C2 as stated: pwmCompleteOneshotMotorUpdate(N) forces the overflow of every
\* distinct timer among the ports of motors 0..N-1 exactly once, whatever the
\* assignment of timers to indices, and leaves all N registers at 0.
C2_OverflowOncePerDistinctTimer ==
    (lastOp.op = "pwmCompleteOneshotMotorUpdate" /\ OneshotBoard(lastOp.index)) =>
        /\ \A t \in UsedTimers :
               ForcedOverflows(t) =
                   IF \E i \in 0..(lastOp.index - 1) : MotorPort(i).tim = t THEN 1 ELSE 0
        /\ \A i \in 0..(lastOp.index - 1) : CCR[MotorReg(i)] = 0

\* C2: pwmCompleteOneshotMotorUpdate(N) forces the overflow of a timer once for
\* every maximal run of consecutive motor indices 0..N-1 bound to it, hence
\* exactly once per distinct timer when the motors sharing a timer are
\* index-adjacent, forces no other timer, and leaves all N registers at 0.
C2_OverflowOncePerTimerRun ==
    (lastOp.op = "pwmCompleteOneshotMotorUpdate" /\ OneshotBoard(lastOp.index)) =>
        /\ \A t \in UsedTimers : ForcedOverflows(t) = TimerRuns(lastOp.index, t)
        /\ AllForcedTimersResolved
        /\ \A i \in 0..(lastOp.index - 1) : CCR[MotorReg(i)] = 0
        /\ ~halted

\* Three motors, the outer two on one timer and the middle one on another: the
\* shared timer was forced twice and all three registers read 0.
C2_Witness ==
    /\ lastOp.op = "pwmCompleteOneshotMotorUpdate"
    /\ lastOp.index = 3
    /\ OneshotBoard(3)
    /\ MotorPort(0).tim = MotorPort(2).tim
    /\ MotorPort(1).tim # MotorPort(0).tim
    /\ ForcedOverflows(MotorPort(0).tim) = 2
    /\ ForcedOverflows(MotorPort(1).tim) = 1
    /\ \A i \in 0..2 : CCR[MotorReg(i)] = 0

\* C3: pwmShutdownPulsesForAllMotors(count) never changes the gate, and with
\* motors 0..count-1 configured it leaves 0 in each of their registers, with
\* the gate open or closed.
C3_ShutdownZeroesMotors ==
    [][ lastOp'.op = "pwmShutdownPulsesForAllMotors" =>
            /\ pwmMotorsEnabled' = pwmMotorsEnabled
            /\ (/\ lastOp'.index <= MAX_PWM_MOTORS
                /\ \A i \in 0..(lastOp'.index - 1) : MotorConfigured(i)) =>
                   \A i \in 0..(lastOp'.index - 1) : CCR'[MotorReg(i)] = 0
      ]_vars

\* Two configured motors were shut down while the gate was closed.
C3_Witness ==
    /\ lastOp.op = "pwmShutdownPulsesForAllMotors"
    /\ lastOp.index = 2
    /\ ~pwmMotorsEnabled
    /\ \A i \in 0..1 : MotorConfigured(i) /\ CCR[MotorReg(i)] = 0
    /\ Len(trace) = 2
    /\ \A k \in 1..2 : trace[k].ev = "store" /\ trace[k].value = 0

\* C4 as stated: a pwmWriteMotor or pwmWriteServo call whose index lies at or
\* beyond the end of the table, or names a slot nothing was configured on,
\* does nothing: no register is written and no element outside the table is
\* read or dereferenced.
C4_OutOfRangeWritesAreNoOps ==
    /\ (/\ lastOp.op = "pwmWriteMotor"
        /\ (lastOp.index >= MAX_PWM_MOTORS \/ motors[lastOp.index] = NULL)) => trace = << >>
    /\ (/\ lastOp.op = "pwmWriteServo"
        /\ (lastOp.index >= MAX_PWM_SERVOS \/ servos[lastOp.index] = NULL)) => trace = << >>

\* Accesses that are not a store to a bound compare register, a read of a table
\* element in range, or the forced overflow of a resolved timer.
WildAccesses ==
    {k \in 1..Len(trace) :
        \/ trace[k].ev \in {"oobRead", "nullPort", "wildStore", "wildCall"}
        \/ trace[k].ev = "timerForceOverflow" /\ trace[k].tim \notin UsedTimers}

\* C5 as stated: the write, shutdown and oneshot-completion calls only perform
\* range-checked table accesses and never go through an unbound slot or an
\* unbound compare-register handle.
C5_RunTimeOperationsCannotFail ==
    lastOp.op \in RunTimeOps => WildAccesses = {}

\* C6: with the gate open, a pwmWriteMotor(i, v) call with 1000 <= v <= 2000 on
\* a motor configured brushed with period P leaves exactly (v-1000)*P/1000,
\* truncated, in the register; the product fits an int; the stored value lies
\* in [0, P], is 0 at 1000 and P at 2000, and does not decrease as v grows.
C6_BrushedDutyScaling ==
    [][ (/\ lastOp'.op = "pwmWriteMotor"
         /\ pwmMotorsEnabled
         /\ MotorConfigured(lastOp'.index)
         /\ MotorPort(lastOp'.index).pwmWritePtr = "pwmWriteBrushed"
         /\ lastOp'.value \in 1000..2000) =>
            LET P == MotorPort(lastOp'.index).period
                v == lastOp'.value
                reg == MotorReg(lastOp'.index)
            IN  /\ P \in 0..(UINT16_MOD - 1)
                /\ (v - 1000) * P <= INT_MAX
                /\ CCR'[reg] = ((v - 1000) * P) \div 1000
                /\ CCR'[reg] \in 0..P
                /\ v = 1000 => CCR'[reg] = 0
                /\ v = 2000 => CCR'[reg] = P
                /\ (/\ lastOp.op = "pwmWriteMotor"
                    /\ lastOp.index = lastOp'.index
                    /\ lastOp.value <= v) => CCR[reg] <= CCR'[reg]
      ]_vars

\* Mid-scale command on a brushed motor with period 65040: half the period.
C6_Witness ==
    /\ lastOp.op = "pwmWriteMotor"
    /\ lastOp.value = 1500
    /\ MotorConfigured(lastOp.index)
    /\ MotorPort(lastOp.index).pwmWritePtr = "pwmWriteBrushed"
    /\ MotorPort(lastOp.index).period = 65040
    /\ CCR[MotorReg(lastOp.index)] = 32520

\* C7: with the gate open, a pwmWriteMotor(i, v) call on a motor configured
\* brushless or oneshot leaves exactly v in its register, and a
\* pwmWriteServo(j, v) call on a configured servo leaves exactly v in its
\* register, whatever the period of the port.
C7_StandardWritesStoreCommand ==
    [][ /\ (/\ lastOp'.op = "pwmWriteMotor"
            /\ pwmMotorsEnabled
            /\ MotorConfigured(lastOp'.index)
            /\ MotorPort(lastOp'.index).pwmWritePtr = "pwmWriteStandard") =>
               /\ CCR'[MotorReg(lastOp'.index)] = lastOp'.value
               /\ trace' = << Ev("store", MotorReg(lastOp'.index)[1],
                                 MotorReg(lastOp'.index)[2], lastOp'.value) >>
        /\ (lastOp'.op = "pwmWriteServo" /\ ServoConfigured(lastOp'.index)) =>
               /\ CCR'[ServoReg(lastOp'.index)] = lastOp'.value
               /\ trace' = << Ev("store", ServoReg(lastOp'.index)[1],
                                 ServoReg(lastOp'.index)[2], lastOp'.value) >>
      ]_vars

\* A oneshot motor (period 0xFFFF) commanded 1750 reads back 1750.
C7_Witness ==
    /\ lastOp.op = "pwmWriteMotor"
    /\ lastOp.value = 1750
    /\ MotorConfigured(lastOp.index)
    /\ MotorPort(lastOp.index).pwmWritePtr = "pwmWriteStandard"
    /\ MotorPort(lastOp.index).period = ONESHOT_PERIOD
    /\ CCR[MotorReg(lastOp.index)] = 1750

\* The registers after pwmWriteMotor(i, v) run in one piece with gate value g.
AtomicWrite(i, v, g) ==
    IF g /\ MotorConfigured(i)
    THEN [CCR EXCEPT ![MotorReg(i)] = Transformed(MotorPort(i), v)]
    ELSE CCR

\* C8: with pwmDisableMotors / pwmEnableMotors running between the steps of
\* pwmWriteMotor, the call loads the gate once and the loaded value is the
\* gate's value at that moment; the call stores only if it loaded TRUE and its
\* effect on the registers is that of an uninterrupted call under the loaded
\* value; a gate call is one store to the gate and touches nothing else.
C8_WriteUsesGateValueRead ==
    [][ /\ (pc = "loadGate" /\ pc' # "loadGate") =>
               /\ call'.gate = pwmMotorsEnabled
               /\ (pc' = "store") = call'.gate
               /\ CCR' = CCR
        /\ (pc = "store" /\ pc' # "store") =>
               /\ call.gate
               /\ CCR' = AtomicWrite(call.index, call.value, call.gate)
        /\ (pc = "idle" /\ pc' = "idle" /\ lastOp'.op = "pwmWriteMotor") => CCR' = CCR
        /\ pc = "idle" => pc' \in {"idle", "loadGate"}
        /\ lastOp'.op \in GateOps =>
               /\ pwmMotorsEnabled' = (lastOp'.op = "pwmEnableMotors")
               /\ UNCHANGED <<CCR, pc, call, pwmOutputPorts, motors, servos>>
        /\ pwmMotorsEnabled' # pwmMotorsEnabled => lastOp'.op \in GateOps
      ]_vars

\* A call that loaded the gate while it was open stored after the gate had
\* been closed.
C8_Witness ==
    /\ pc = "idle"
    /\ lastOp.op = "pwmWriteMotor"
    /\ call.gate
    /\ ~pwmMotorsEnabled
    /\ Len(trace) = 1
    /\ trace[1].ev = "store"
    /\ CCR[MotorReg(call.index)] = Transformed(MotorPort(call.index), call.value)

\* C9: a configuration call on a descriptor whose timer handle does not resolve
\* moves the cursor by exactly one, makes no call into the timer or GPIO
\* abstraction, preloads no register, leaves ccr, tim and period of the new
\* port unset and every other port alone, and the caller still stores the port
\* in its table.
C9_UnresolvedTimerConsumesSlot ==
    [][ (/\ lastOp'.op \in ConfigOps
         /\ timerFindTimerHandle(timerHardware[lastOp'.hw].tim) = NULL_TIM) =>
            LET cell == allocatedOutputPortCount
            IN  /\ allocatedOutputPortCount' = allocatedOutputPortCount + 1
                /\ trace' = << >>
                /\ CCR' = CCR
                /\ pwmOutputPorts'[cell].ccr = NULL_CCR
                /\ pwmOutputPorts'[cell].tim = NULL_TIM
                /\ pwmOutputPorts'[cell].period = 0
                /\ \A c \in (DOMAIN pwmOutputPorts) \ {cell} :
                       pwmOutputPorts'[c] = pwmOutputPorts[c]
                /\ IF lastOp'.op = "pwmServoConfig"
                   THEN servos'[lastOp'.index] = cell /\ motors' = motors
                   ELSE motors'[lastOp'.index] = cell /\ servos' = servos
      ]_vars

\* A brushless motor was configured on the unresolvable descriptor: its table
\* entry names the newest port, which has no register, timer or period.
C9_Witness ==
    /\ lastOp.op = "pwmBrushlessMotorConfig"
    /\ timerFindTimerHandle(timerHardware[lastOp.hw].tim) = NULL_TIM
    /\ motors[lastOp.index] = allocatedOutputPortCount - 1
    /\ MotorPort(lastOp.index).ccr = NULL_CCR
    /\ MotorPort(lastOp.index).tim = NULL_TIM
    /\ MotorPort(lastOp.index).period = 0
    /\ MotorPort(lastOp.index).pwmWritePtr = "pwmWriteStandard"
    /\ trace = << >>

\* C10 as stated: the allocation cursor never exceeds the capacity of the pool.
C10_CursorWithinCapacity ==
    allocatedOutputPortCount <= MAX_PWM_OUTPUT_PORTS

\* The cells of the pool handed out so far.
AllocatedCells == 0..((IF allocatedOutputPortCount < MAX_PWM_OUTPUT_PORTS
                       THEN allocatedOutputPortCount ELSE MAX_PWM_OUTPUT_PORTS) - 1)

\* C11 as stated: in every reachable state no two allocated ports hold the same
\* compare-register handle.
C11_NoTwoPortsShareRegister ==
    \A c1, c2 \in AllocatedCells :
        (c1 # c2 /\ pwmOutputPorts[c1].ccr \in Registers) =>
            pwmOutputPorts[c1].ccr # pwmOutputPorts[c2].ccr

\* The state a gate call leaves apart from the history of calls.
FullState == <<pwmMotorsEnabled, CCR, motors, servos, allocatedOutputPortCount,
               pwmOutputPorts, halted>>

\* C12: the gate is open before any call is made; pwmEnableMotors sets it,
\* pwmDisableMotors clears it, whatever it was, and neither touches registers,
\* tables, cursor or ports; a call that directly follows a call of the same
\* function leaves the full state as the first one left it.
C12_GateCallsIdempotent ==
    /\ pwmMotorsEnabled = TRUE
    /\ [][ lastOp'.op \in GateOps =>
               /\ pwmMotorsEnabled' = (lastOp'.op = "pwmEnableMotors")
               /\ UNCHANGED <<CCR, motors, servos, allocatedOutputPortCount,
                              pwmOutputPorts, halted>>
               /\ lastOp.op = lastOp'.op => FullState' = FullState
         ]_vars

\* pwmDisableMotors ran on a board with a configured motor whose register holds
\* a pulse: the gate is closed and the register kept its value.
C12_Witness ==
    /\ lastOp.op = "pwmDisableMotors"
    /\ ~pwmMotorsEnabled
    /\ MotorConfigured(0)
    /\ CCR[MotorReg(0)] = 2000

\* C13: within one pwmCompleteOneshotMotorUpdate call every forced overflow
\* precedes every store to a compare register, whatever the board.
C13_OverflowsBeforeZeroing ==
    lastOp.op = "pwmCompleteOneshotMotorUpdate" =>
        \A k, l \in 1..Len(trace) :
            (/\ trace[k].ev = "timerForceOverflow"
             /\ trace[l].ev \in {"store", "wildStore"}) => k < l

\* Two motors on different timers: two overflows, then two stores of 0.
C13_Witness ==
    /\ lastOp.op = "pwmCompleteOneshotMotorUpdate"
    /\ lastOp.index = 2
    /\ OneshotBoard(2)
    /\ MotorPort(0).tim # MotorPort(1).tim
    /\ Len(trace) = 4
    /\ \A k \in 1..2 : trace[k].ev = "timerForceOverflow"
    /\ \A k \in 3..4 : trace[k].ev = "store" /\ trace[k].value = 0

\* The timers at the head of each maximal run of consecutive motor indices
\* below n on one timer, in index order.
RECURSIVE RunTimers(_)
RunTimers(n) ==
    IF n = 0
    THEN << >>
    ELSE IF n = 1 \/ MotorPort(n - 2).tim # MotorPort(n - 1).tim
         THEN Append(RunTimers(n - 1), MotorPort(n - 1).tim)
         ELSE RunTimers(n - 1)

IsForcedOverflow(e) == e.ev = "timerForceOverflow"

\* The timers the last call forced, in call order.
ForcedTimers ==
    LET f == SelectSeq(trace, IsForcedOverflow)
    IN  [k \in 1..Len(f) |-> f[k].tim]

\* C14: with motors 0..N-1 on resolved timers, pwmCompleteOneshotMotorUpdate(N)
\* forces, in index order, the timer of each maximal run of consecutive
\* indices on one timer and nothing else: every timer in use is forced at
\* least once, adjacent sharers cause one overflow, a timer shared by
\* non-adjacent indices is forced once per run, and the call completes without
\* a wild access.
C14_OverflowPerRunInIndexOrder ==
    (lastOp.op = "pwmCompleteOneshotMotorUpdate" /\ OneshotBoard(lastOp.index)) =>
        /\ ForcedTimers = RunTimers(lastOp.index)
        /\ \A i \in 0..(lastOp.index - 1) : ForcedOverflows(MotorPort(i).tim) >= 1
        /\ \A i \in 1..(lastOp.index - 1) :
               (\A j \in 0..(lastOp.index - 1) :
                    MotorPort(j).tim = MotorPort(i).tim => j \in {i - 1, i}) =>
                   ForcedOverflows(MotorPort(i).tim) = 1
        /\ WildAccesses = {}
        /\ ~halted

\* Three motors, the first two on one timer and the third on another: one
\* overflow for the pair, one for the third.
C14_Witness ==
    /\ lastOp.op = "pwmCompleteOneshotMotorUpdate"
    /\ lastOp.index = 3
    /\ OneshotBoard(3)
    /\ MotorPort(0).tim = MotorPort(1).tim
    /\ MotorPort(2).tim # MotorPort(0).tim
    /\ ForcedTimers = << MotorPort(0).tim, MotorPort(2).tim >>

\* C15: every configuration call moves the allocation cursor up by exactly one,
\* also when the index or the channel was configured before and when the timer
\* does not resolve; no other call changes the cursor; it never decreases.
C15_CursorStepsOnConfigureOnly ==
    [][ /\ lastOp'.op \in ConfigOps =>
               allocatedOutputPortCount' = allocatedOutputPortCount + 1
        /\ lastOp'.op \notin ConfigOps =>
               allocatedOutputPortCount' = allocatedOutputPortCount
        /\ allocatedOutputPortCount' >= allocatedOutputPortCount
      ]_vars

\* Motor 0 was configured three times, last on the unresolvable descriptor, and
\* nothing else was configured: the cursor stands at 3.
C15_Witness ==
    /\ lastOp.op \in ConfigOps
    /\ lastOp.index = 0
    /\ timerFindTimerHandle(timerHardware[lastOp.hw].tim) = NULL_TIM
    /\ allocatedOutputPortCount = 3
    /\ motors[0] = 2
    /\ \A i \in 1..(MAX_PWM_MOTORS - 1) : motors[i] = NULL
    /\ \A j \in 0..(MAX_PWM_SERVOS - 1) : servos[j] = NULL

\* C16: a port that has been handed out keeps its timer, compare-register
\* handle, period and write strategy through every later call, configuration
\* calls for the same or another index included; calls other than
\* configuration calls change no port at all.
C16_PortFieldsFrozen ==
    [][ /\ \A c \in AllocatedCells : pwmOutputPorts'[c] = pwmOutputPorts[c]
        /\ lastOp'.op \notin ConfigOps => pwmOutputPorts' = pwmOutputPorts
      ]_vars

\* Motor 0 was configured brushed, then again brushless on the same channel,
\* then written: the first port still is the brushed port it was.
C16_Witness ==
    /\ lastOp.op = "pwmWriteMotor"
    /\ allocatedOutputPortCount = 2
    /\ motors[0] = 1
    /\ pwmOutputPorts[0].pwmWritePtr = "pwmWriteBrushed"
    /\ pwmOutputPorts[0].period = 500
    /\ pwmOutputPorts[0].ccr \in Registers
    /\ pwmOutputPorts[1].pwmWritePtr = "pwmWriteStandard"
    /\ pwmOutputPorts[1].ccr = pwmOutputPorts[0].ccr
    /\ CCR[pwmOutputPorts[1].ccr] = 2000

\* C17 as stated: while the gate is closed, under every interleaving of the
\* safety monitor with a control loop that may be inside pwmWriteMotor, a step
\* other than a configuration call leaves every motor register at its value
\* or at 0.
C17_NoCommandWhileGateClosed ==
    [][ (~pwmMotorsEnabled /\ lastOp'.op \notin ConfigOps) =>
            \A i \in 0..(MAX_PWM_MOTORS - 1) :
                MotorConfigured(i) =>
                    CCR'[MotorReg(i)] \in {CCR[MotorReg(i)], 0}
      ]_vars

\* C18 as stated: in every reachable state every non-empty motor slot names a
\* port with a write strategy and a bound compare register, and every
\* non-empty servo slot names a port with a bound compare register.
C18_FilledSlotsHaveBoundRegister ==
    /\ \A i \in 0..(MAX_PWM_MOTORS - 1) :
           motors[i] # NULL =>
               /\ pwmOutputPorts[motors[i]].pwmWritePtr # NULL_FN
               /\ pwmOutputPorts[motors[i]].ccr \in Registers
    /\ \A j \in 0..(MAX_PWM_SERVOS - 1) :
           servos[j] # NULL => pwmOutputPorts[servos[j]].ccr \in Registers

\* The cells the dispatch tables name.
MotorSlots == {i \in 0..(MAX_PWM_MOTORS - 1) : motors[i] # NULL}
ServoSlots == {j \in 0..(MAX_PWM_SERVOS - 1) : servos[j] # NULL}

\* Different dispatch entries name different cells, all of them handed out.
EntriesNameDistinctCells ==
    /\ \A i1, i2 \in MotorSlots : i1 # i2 => motors[i1] # motors[i2]
    /\ \A j1, j2 \in ServoSlots : j1 # j2 => servos[j1] # servos[j2]
    /\ \A i \in MotorSlots, j \in ServoSlots : motors[i] # servos[j]
    /\ \A i \in MotorSlots : motors[i] \in 0..(allocatedOutputPortCount - 1)
    /\ \A j \in ServoSlots : servos[j] \in 0..(allocatedOutputPortCount - 1)

\* The entry a configuration call filled, before and after the call.
EntryBefore(op) == IF op.op = "pwmServoConfig" THEN servos[op.index] ELSE motors[op.index]
EntryAfter(op) == IF op.op = "pwmServoConfig" THEN servos'[op.index] ELSE motors'[op.index]

\* C19: as long as no more configuration calls were made than the pool has
\* cells, different dispatch entries name different cells; a configuration call
\* binds its index to the cell at the cursor, which no entry named before,
\* changes no other entry, and leaves the cell the index named before as it
\* was.
C19_EntriesNameDistinctSlots ==
    [][ allocatedOutputPortCount' <= MAX_PWM_OUTPUT_PORTS =>
            /\ EntriesNameDistinctCells'
            /\ lastOp'.op \in ConfigOps =>
                   /\ EntryAfter(lastOp') = allocatedOutputPortCount
                   /\ \A i \in MotorSlots : motors[i] # allocatedOutputPortCount
                   /\ \A j \in ServoSlots : servos[j] # allocatedOutputPortCount
                   /\ \A i \in 0..(MAX_PWM_MOTORS - 1) :
                          (lastOp'.op = "pwmServoConfig" \/ i # lastOp'.index) =>
                              motors'[i] = motors[i]
                   /\ \A j \in 0..(MAX_PWM_SERVOS - 1) :
                          (lastOp'.op # "pwmServoConfig" \/ j # lastOp'.index) =>
                              servos'[j] = servos[j]
                   /\ EntryBefore(lastOp') # NULL =>
                          pwmOutputPorts'[EntryBefore(lastOp')] =
                              pwmOutputPorts[EntryBefore(lastOp')]
      ]_vars

\* Motor 0, motor 1, then motor 0 again: motor 0 names the third cell, and the
\* first cell still holds the port of the first call.
C19_Witness ==
    /\ allocatedOutputPortCount = 3
    /\ motors[0] = 2
    /\ motors[1] = 1
    /\ lastOp.op \in ConfigOps
    /\ lastOp.index = 0
    /\ pwmOutputPorts[0].pwmWritePtr # NULL_FN
    /\ pwmOutputPorts[0].pwmWritePtr # pwmOutputPorts[2].pwmWritePtr

\* No two ports handed out hold the same bound compare-register handle.
PortsOwnTheirRegisters ==
    \A c1, c2 \in AllocatedCells :
        (c1 # c2 /\ pwmOutputPorts[c1].ccr \in Registers) =>
            pwmOutputPorts[c2].ccr # pwmOutputPorts[c1].ccr

NoForcedOverflow(tr) == \A k \in 1..Len(tr) : tr[k].ev # "timerForceOverflow"

\* C20: on a board where every port has its own compare register,
\* pwmWriteMotor(i, v) changes no register but that of motor i's port and
\* pwmWriteServo(j, v) none but that of servo j's port; both leave the gate,
\* the cursor, the ports and both tables as they were and force no timer.
C20_WritesTouchOneRegister ==
    [][ /\ (lastOp'.op = "pwmWriteMotor" /\ PortsOwnTheirRegisters) =>
               /\ \A r \in Registers :
                      ~(MotorConfigured(lastOp'.index) /\ r = MotorReg(lastOp'.index)) =>
                          CCR'[r] = CCR[r]
               /\ UNCHANGED <<pwmMotorsEnabled, allocatedOutputPortCount, motors, servos,
                              pwmOutputPorts>>
               /\ NoForcedOverflow(trace')
        /\ (lastOp'.op = "pwmWriteServo" /\ PortsOwnTheirRegisters) =>
               /\ \A r \in Registers :
                      ~(ServoConfigured(lastOp'.index) /\ r = ServoReg(lastOp'.index)) =>
                          CCR'[r] = CCR[r]
               /\ UNCHANGED <<pwmMotorsEnabled, allocatedOutputPortCount, motors, servos,
                              pwmOutputPorts>>
               /\ NoForcedOverflow(trace')
      ]_vars

\* Two motors on different registers, motor 0 written: its register holds the
\* command, motor 1's still holds the idle pulse.
C20_Witness ==
    /\ lastOp.op = "pwmWriteMotor"
    /\ lastOp.index = 0
    /\ PortsOwnTheirRegisters
    /\ MotorConfigured(0)
    /\ MotorConfigured(1)
    /\ MotorPort(0).pwmWritePtr = "pwmWriteStandard"
    /\ CCR[MotorReg(0)] = 2000
    /\ CCR[MotorReg(1)] = 1000
====
